---- MODULE Spec2Model ----
(***************************************************************************)
(* Model of src/app.py: a Streamlit page that sends the text of a form,    *)
(* with the instruction of the selected expert role, to a hosted chat      *)
(* model through LangChain, and renders the answer or an error.            *)
(*                                                                         *)
(* Streamlit runs the whole script once per page run: on first load, when  *)
(* the radio selection changes, and when the form is submitted.  A page    *)
(* run is modelled as one action up to the blocking call of                *)
(* generate_response (line 112); the call itself is a second action, so    *)
(* that the spinner ("loading") is a visible state.                        *)
(*                                                                         *)
(* A Python str that is formatted, stripped or compared character by       *)
(* character (the user text, the prompt templates) is a sequence of        *)
(* characters; "{" and "}" are the two characters str.format interprets,   *)
(* and any other element is a literal.  The Japanese literals of the       *)
(* source are written as ASCII glosses, one distinct gloss per literal.    *)
(***************************************************************************)
EXTENDS Naturals, Sequences, FiniteSets, TLC

VARIABLES
  shell_env,    \* OPENAI_API_KEY in the environment the server was started with
  dotenv_file,  \* OPENAI_API_KEY in the .env file, as it is now
  environ,      \* OPENAI_API_KEY in os.environ of the server process
  secrets,      \* the secret store (secrets.toml) as it is now
  key_exists,   \* the global api_key_exists of the last page run (line 98)
  role,         \* value of the radio widget (line 82)
  user_text,    \* value of the text area at the last submission (line 90)
  submitted,    \* value of the submit button in the last page run (line 95)
  state,        \* presentation state of the page after the last step
  display,      \* elements rendered below the form by the last page run
  calls,        \* invocations of generate_response in the last page run
  messages,     \* conversation handed to the chat model in the last page run
  e             \* exception raised by generate_response in the last page run

vars == <<shell_env, dotenv_file, environ, secrets, key_exists, role, user_text,
          submitted, state, display, calls, messages, e>>

(***************************************************************************)
(* Bounds of the model.                                                    *)
(***************************************************************************)
\* longest user text entered in the text area
MaxLen == 2

\* characters of a user text: a letter, a blank, and the two format braces
Alphabet == {"a", " ", "{", "}"}

RECURSIVE SeqsUpTo(_)
SeqsUpTo(n) ==
  IF n = 0 THEN {<<>>}
  ELSE LET shorter == SeqsUpTo(n - 1)
       IN  shorter \cup {Append(s, c) : s \in {t \in shorter : Len(t) = n - 1}, c \in Alphabet}

Texts == SeqsUpTo(MaxLen)

\* longest user text passed to generate_response when it is called directly
MaxCallLen == 3

CallTexts == SeqsUpTo(MaxCallLen)

\* values of a credential entry: absent, set to the empty string, set to a key
UNSET == "unset"
KeyValues == {UNSET, "", "sk-key"}

\* the secret store: no secrets file at all, or a file with the entry as above
NOFILE == "nofile"
SecretStores == {NOFILE} \cup KeyValues

\* texts the remote model may return
Answers == {<<"a">>, <<"{", "a", "}">>}

\* messages of the exceptions generate_response may raise: building the client
\* (line 37), and the remote call (line 50): network, authentication, provider
ClientError == "api_key client option must be set"
RemoteErrors == {"Connection error.", "Incorrect API key provided", "Rate limit reached"}

NONE == "None"

(***************************************************************************)
(* system_message_for, lines 15-31.                                        *)
(***************************************************************************)
\* "データサイエンティスト" and "プロダクトマネージャー"
DATA_SCIENTIST == "data-scientist"
PRODUCT_MANAGER == "product-manager"

\* the three instruction strings of lines 18-21, 24-26 and 30; none holds a brace
DataScientistInstruction == <<"You are a first-class data scientist. ...">>
ProductManagerInstruction == <<"You are a seasoned product manager. ...">>
FallbackInstruction == <<"You are a capable assistant. Answer briefly and correctly.">>

presets ==
  (DATA_SCIENTIST :> DataScientistInstruction) @@ (PRODUCT_MANAGER :> ProductManagerInstruction)

\* faulty variant: presets[expert_role], which raises KeyError for an unknown identifier
system_message_for_NoDefault(expert_role) ==
  IF expert_role \in DOMAIN presets THEN presets[expert_role] ELSE <<"KeyError">>

\* presets.get(expert_role, fallback)
system_message_for(expert_role) ==
  IF expert_role \in DOMAIN presets THEN presets[expert_role] ELSE FallbackInstruction

\* faulty variant: a third radio option that has no preset
RadioOptions_ThirdRole == <<DATA_SCIENTIST, PRODUCT_MANAGER, "engineer">>

\* options of the radio widget, lines 82-86
RadioOptions == <<DATA_SCIENTIST, PRODUCT_MANAGER>>

(***************************************************************************)
(* Prompt formatting: ChatPromptTemplate.from_messages and chain.invoke,   *)
(* lines 42-50.  Each message template is an f-string template formatted   *)
(* by str.format with the keyword arguments of invoke: "{{" and "}}" are   *)
(* literal braces, "{name}" is replaced by the argument called name, and   *)
(* anything else raises.  A substituted value is copied, never formatted   *)
(* again.                                                                  *)
(***************************************************************************)
Raised(exc) == [ok |-> FALSE, exc |-> exc, text |-> <<>>]
Returned(text) == [ok |-> TRUE, exc |-> NONE, text |-> text]

\* index of the first "}" of t at or after i, 0 when there is none
RECURSIVE FirstClose(_, _)
FirstClose(t, i) ==
  IF i > Len(t) THEN 0
  ELSE IF t[i] = "}" THEN i
  ELSE FirstClose(t, i + 1)

Tail2(t) == SubSeq(t, 3, Len(t))

RECURSIVE format(_, _)
format(template, kwargs) ==
  IF template = <<>> THEN Returned(<<>>)
  ELSE IF Head(template) = "{" THEN
    IF Len(template) >= 2 /\ template[2] = "{" THEN
      LET rest == format(Tail2(template), kwargs)
      IN  IF rest.ok THEN Returned(<<"{">> \o rest.text) ELSE rest
    ELSE
      LET close == FirstClose(template, 2)
          name == SubSeq(template, 2, close - 1)
      IN  IF close = 0 THEN Raised("ValueError")
          ELSE IF \E i \in 1..Len(name) : name[i] = "{" THEN Raised("ValueError")
          ELSE IF name = <<>> THEN Raised("ValueError")
          ELSE IF name \notin DOMAIN kwargs THEN Raised("KeyError")
          ELSE LET rest == format(SubSeq(template, close + 1, Len(template)), kwargs)
               IN  IF rest.ok THEN Returned(kwargs[name] \o rest.text) ELSE rest
  ELSE IF Head(template) = "}" THEN
    IF Len(template) >= 2 /\ template[2] = "}" THEN
      LET rest == format(Tail2(template), kwargs)
      IN  IF rest.ok THEN Returned(<<"}">> \o rest.text) ELSE rest
    ELSE Raised("ValueError")
  ELSE
    LET rest == format(Tail(template), kwargs)
    IN  IF rest.ok THEN Returned(<<Head(template)>> \o rest.text) ELSE rest

\* faulty variant: ("human", user_text), the user text itself used as the template
HumanTemplate_UserTextAsTemplate(text) == text

\* the template of the human message, line 45: "{input_text}"
HumanTemplate(text) == <<"{", "input_text", "}">>

\* the keyword arguments of chain.invoke, line 50
InvokeInput(text) == (<<"input_text">> :> text)

\* the message list the prompt produces, or the exception it raises:
\* ("system", ...) becomes a system message and ("human", ...) a user message
PromptMessages(text, expert_role) ==
  LET sys == format(system_message_for(expert_role), InvokeInput(text))
      hum == format(HumanTemplate(text), InvokeInput(text))
  IN  IF ~sys.ok THEN Raised(sys.exc)
      ELSE IF ~hum.ok THEN Raised(hum.exc)
      ELSE Returned(<<[role |-> "system", content |-> sys.text],
                      [role |-> "user", content |-> hum.text]>>)

(***************************************************************************)
(* generate_response, lines 35-50: the outcomes one call can have.  The    *)
(* client constructor (line 37) and the remote call (line 50) raise or     *)
(* not as the provider and the network decide; the prompt (lines 42-47)    *)
(* is computed.  sent is the conversation that reached the chat model.     *)
(***************************************************************************)
CallRaised(exc, sent) == [ok |-> FALSE, exc |-> exc, answer |-> <<>>, sent |-> sent]
CallReturned(answer, sent) == [ok |-> TRUE, exc |-> NONE, answer |-> answer, sent |-> sent]

generate_response(text, expert_role) ==
  LET prompt == PromptMessages(text, expert_role)
  IN  {CallRaised(ClientError, <<>>)}
      \cup (IF ~prompt.ok THEN {CallRaised(prompt.exc, <<>>)}
            ELSE {CallRaised(err, prompt.text) : err \in RemoteErrors}
                 \cup {CallReturned(ans, prompt.text) : ans \in Answers})

(***************************************************************************)
(* The credential, lines 5-6 and 97-100.                                   *)
(***************************************************************************)
\* bool(v) of a str or None
Truthy(v) == v \notin {UNSET, ""}

\* load_dotenv(), line 6: override is False, so an entry of .env is copied
\* into os.environ only when os.environ has no such variable; nothing is
\* ever removed from os.environ
load_dotenv(env, file) == IF env = UNSET /\ file # UNSET THEN file ELSE env

\* bool(os.getenv(K) or st.secrets.get(K, None)), lines 98-100.  `or` reads
\* the secret store only when the environment value is falsy; st.secrets
\* raises when there is no secrets file (get's default covers only a missing
\* key of an existing store)
api_key_exists(env, store) ==
  IF Truthy(env) THEN "True"
  ELSE IF store = NOFILE THEN "Raise"
  ELSE IF Truthy(store) THEN "True"
  ELSE "False"

(***************************************************************************)
(* str.strip(), line 103.                                                  *)
(***************************************************************************)
RECURSIVE lstrip(_)
lstrip(s) == IF s # <<>> /\ Head(s) = " " THEN lstrip(Tail(s)) ELSE s

RECURSIVE rstrip(_)
rstrip(s) ==
  IF s # <<>> /\ s[Len(s)] = " " THEN rstrip(SubSeq(s, 1, Len(s) - 1)) ELSE s

strip(s) == rstrip(lstrip(s))

(***************************************************************************)
(* What the page renders below the form, lines 102-119.                    *)
(***************************************************************************)
Element(kind, body) == [kind |-> kind, body |-> body]

\* st.warning, line 104
EmptyInputWarning == Element("warning", <<"Please enter the input text.">>)
\* st.error, lines 106-108
MissingKeyError == Element("error", <<"OpenAI API key was not found. Set OPENAI_API_KEY in .env or Secrets.">>)
\* st.spinner, line 110
Spinner == Element("spinner", <<"Asking the LLM ...">>)
\* st.markdown, line 113
AnswerHeading == Element("markdown", <<"### :brain: answer">>)
\* the prefix of the f-string of line 116
ErrorPrefix == "An error occurred: "
\* st.info, lines 117-119
TroubleshootingHint == Element("info", <<"Check the API key, model name, network and dependency versions.">>)
\* the exception Streamlit shows in place of the rest of the page when the
\* script raises outside any try
UncaughtException == Element("exception", <<"StreamlitSecretNotFoundError">>)

Page(st, shown) == [state |-> st, display |-> shown]

\* faulty variant: the credential guard of lines 105-108 left out
Guards_NoKeyCheck(text, exists) ==
  IF strip(text) = <<>> THEN Page("invalid", <<EmptyInputWarning>>)
  ELSE Page("loading", <<Spinner>>)

\* the branches of `if submitted`, lines 102-110, up to the spinner
Guards(text, exists) ==
  IF strip(text) = <<>> THEN Page("invalid", <<EmptyInputWarning>>)
  ELSE IF exists # "True" THEN Page("missing_credential", <<MissingKeyError>>)
  ELSE Page("loading", <<Spinner>>)

\* one run of the script, lines 6-110, with the widget values of this run
PageRun(sub, text, env, store) ==
  LET exists == api_key_exists(env, store)
  IN  IF exists = "Raise" THEN Page("script_exception", <<UncaughtException>>)
      ELSE IF ~sub THEN Page("idle", <<>>)
      ELSE Guards(text, exists)

\* lines 113-114
ShowAnswer(answer) == Page("success", <<AnswerHeading, Element("write", answer)>>)

\* faulty variant: no except clause, the exception aborts the script
ExceptHandler_Uncaught(exc) == Page("script_exception", <<UncaughtException>>)

\* faulty variant: the call is tried again after a failure
ExceptHandler_Retry(exc) == Page("loading", <<Spinner>>)

\* faulty variant: the hint is shown only for some causes
ExceptHandler_HintByCause(exc) ==
  IF exc = "Incorrect API key provided"
  THEN Page("error", <<Element("error", <<ErrorPrefix, exc>>)>>)
  ELSE Page("error", <<Element("error", <<ErrorPrefix, exc>>), TroubleshootingHint>>)

\* except Exception as e, lines 115-119
ExceptHandler(exc) ==
  Page("error", <<Element("error", <<ErrorPrefix, exc>>), TroubleshootingHint>>)

(***************************************************************************)
(* Actions.                                                                *)
(***************************************************************************)
Roles == {RadioOptions[i] : i \in DOMAIN RadioOptions}

\* the state after the first page run: default widget values, nothing submitted
Init ==
  /\ shell_env \in KeyValues
  /\ dotenv_file \in KeyValues
  /\ secrets \in SecretStores
  /\ environ = load_dotenv(shell_env, dotenv_file)
  /\ key_exists = api_key_exists(environ, secrets)
  /\ role = RadioOptions[1]
  /\ user_text = <<>>
  /\ submitted = FALSE
  /\ LET page == PageRun(FALSE, <<>>, environ, secrets)
     IN  state = page.state /\ display = page.display
  /\ calls = 0
  /\ messages = <<>>
  /\ e = NONE

\* a page run with the given widget values; the script is blocked inside
\* the call of line 112 until it returns or raises, so no run starts while
\* one is loading
Run(sub, text, r) ==
  /\ state # "loading"
  /\ environ' = load_dotenv(environ, dotenv_file)
  /\ key_exists' = api_key_exists(environ', secrets)
  /\ role' = r
  /\ user_text' = text
  /\ submitted' = sub
  /\ LET page == PageRun(sub, text, environ', secrets)
     IN  state' = page.state /\ display' = page.display
  /\ calls' = 0
  /\ messages' = <<>>
  /\ e' = NONE
  /\ UNCHANGED <<shell_env, dotenv_file, secrets>>

\* the user picks the other radio option: the script runs with submitted False
SelectRole(r) ==
  /\ r # role
  /\ Run(FALSE, user_text, r)

\* the user presses the submit button of the form with text t in the text area
Submit(t) ==
  /\ t \in Texts
  /\ Run(TRUE, t, role)

\* line 112 and its try/except: the blocking call and what is rendered after it
GenerateResponse ==
  /\ state = "loading"
  /\ \E result \in generate_response(user_text, role) :
       /\ calls' = calls + 1
       /\ messages' = result.sent
       /\ e' = result.exc
       /\ LET page == IF result.ok THEN ShowAnswer(result.answer)
                      ELSE ExceptHandler(result.exc)
          IN  state' = page.state /\ display' = page.display
  /\ UNCHANGED <<shell_env, dotenv_file, environ, secrets, key_exists, role, user_text,
                 submitted>>

\* the operator edits the .env file or the secret store while the server runs
EditDotenv(v) ==
  /\ v # dotenv_file
  /\ dotenv_file' = v
  /\ UNCHANGED <<shell_env, environ, secrets, key_exists, role, user_text, submitted,
                 state, display, calls, messages, e>>

EditSecrets(v) ==
  /\ v # secrets
  /\ secrets' = v
  /\ UNCHANGED <<shell_env, dotenv_file, environ, key_exists, role, user_text, submitted,
                 state, display, calls, messages, e>>

Next ==
  \/ \E r \in Roles : SelectRole(r)
  \/ \E t \in Texts : Submit(t)
  \/ GenerateResponse
  \/ \E v \in KeyValues : EditDotenv(v)
  \/ \E v \in SecretStores : EditSecrets(v)

Spec == Init /\ [][Next]_vars

(***************************************************************************)
(* generate_response called directly, with any identifier as expert_role:  *)
(* the specification of the function on its own, outside the page.         *)
(***************************************************************************)
\* the two preset identifiers, the empty string, and two that are no preset
Identifiers == {DATA_SCIENTIST, PRODUCT_MANAGER, "", "unknown-role", "data-scientist "}

InitCall ==
  /\ shell_env = "sk-key"
  /\ dotenv_file = UNSET
  /\ secrets = UNSET
  /\ environ = "sk-key"
  /\ key_exists = "True"
  /\ role \in Identifiers
  /\ user_text \in CallTexts
  /\ submitted = TRUE
  /\ state = "loading"
  /\ display = <<Spinner>>
  /\ calls = 0
  /\ messages = <<>>
  /\ e = NONE

NextCall == GenerateResponse

SpecCall == InitCall /\ [][NextCall]_vars

(***************************************************************************)
(* Claims.                                                                 *)
(***************************************************************************)
Blank(text) == strip(text) = <<>>

\* C1: a submission whose text is empty or only whitespace never invokes
\* generate_response, whatever the role and the credential, and ends in the
\* empty-input warning.
C1_BlankSubmissionEndsInWarning ==
  (submitted /\ Blank(user_text)) =>
    /\ state = "invalid"
    /\ display = <<EmptyInputWarning>>
    /\ calls = 0
    /\ messages = <<>>

\* the credential is in neither the process environment nor the secret store
NoCredential == ~Truthy(environ) /\ ~Truthy(secrets)

Causes == {ClientError} \cup RemoteErrors

ErrorOutput(exc) == <<Element("error", <<ErrorPrefix, exc>>), TroubleshootingHint>>

\* C3: when the call of generate_response raises (building the client or
\* the prompt included), the submission ends in the error state showing the
\* error message and the troubleshooting hint, no answer is displayed, the
\* script is not aborted, and a further submission can be made and is
\* handled.
C3_RaiseEndsInErrorState ==
  (e # NONE) =>
    /\ state = "error"
    /\ calls = 1
    /\ display = ErrorOutput(e)
    /\ \A i \in DOMAIN display : display[i].kind \notin {"write", "markdown", "exception"}
    /\ \A t \in Texts : ENABLED Submit(t)

C3_Witness ==
  /\ e = ClientError
  /\ state = "error"
  /\ messages = <<>>
  /\ display = ErrorOutput(ClientError)

\* C6 as stated: the output shown for a failed call is the same whatever the
\* cause, so the output shown is the one any other cause would give.
C6_SameOutputForEveryCause ==
  (state = "error") => \A c \in Causes : display = ExceptHandler(c).display

\* C6 amended: every failed call is shown by the same handler as two
\* elements, an error element holding the fixed prefix followed by the text
\* of the exception, and the fixed troubleshooting hint; the outputs for two
\* causes differ in the text of the exception and in nothing else.
C6_OutputDiffersOnlyInExceptionText ==
  (state = "error") =>
    /\ display = ErrorOutput(e)
    /\ \A c \in Causes :
         LET other == ExceptHandler(c).display
         IN  /\ Len(other) = 2 /\ Len(display) = 2
             /\ other[2] = TroubleshootingHint /\ display[2] = TroubleshootingHint
             /\ other[1].kind = display[1].kind
             /\ other[1].body[1] = display[1].body[1]
             /\ (other[1].body[2] = display[1].body[2]) <=> (c = e)

C6_Witness ==
  /\ state = "error"
  /\ e = "Incorrect API key provided"
  /\ display[1].body = <<ErrorPrefix, "Incorrect API key provided">>
  /\ display # ExceptHandler("Connection error.").display

\* C7: every submission ends in one of the four terminal states, decided in
\* order: blank text gives invalid, even with the credential missing;
\* otherwise a missing credential gives missing_credential; otherwise loading
\* is entered and ends in success, with the answer shown, or in error.
\* Loading is entered only with both guards passed, and success and error
\* only from loading.
C7_OutcomeDecidedByGuardsInOrder ==
  /\ submitted =>
       /\ state \in {"invalid", "missing_credential", "loading", "success", "error"}
       /\ Blank(user_text) => state = "invalid"
       /\ (~Blank(user_text) /\ key_exists # "True") => state = "missing_credential"
       /\ (~Blank(user_text) /\ key_exists = "True") => state \in {"loading", "success", "error"}
  /\ (state \in {"loading", "success", "error"}) =>
       (submitted /\ ~Blank(user_text) /\ key_exists = "True")
  /\ (state \in {"success", "error"}) => calls = 1
  /\ (state = "success") =>
       (Len(display) = 2 /\ display[1] = AnswerHeading /\ display[2].kind = "write"
        /\ display[2].body \in Answers)

\* C8: a submission invokes generate_response at most once: after the call
\* has failed or succeeded the page is in a terminal state, from which no
\* call is made until the form is submitted again.
C8_AtMostOneCallPerSubmission ==
  /\ calls <= 1
  /\ (calls = 1) => (state \in {"success", "error"} /\ ~ENABLED GenerateResponse)
  /\ (calls = 0) => (state \notin {"success", "error"})

C8_Witness ==
  /\ calls = 1
  /\ state = "error"
  /\ e \in RemoteErrors

\* C9: the outcome of a submission depends only on its text, the selected
\* role and the credential sources (the environment the server was started
\* with, the .env file, the secret store) as they are at that moment: it is
\* the outcome of a page run that reads them afresh, so a submission made
\* after the credential was removed from its source is handled as one
\* without a credential.
C9_OutcomeFromCurrentSourcesOnly ==
  [][Submit(user_text')
       => (state' = PageRun(TRUE, user_text', load_dotenv(shell_env', dotenv_file'), secrets').state)]_vars

\* no source holds a key: not the environment the server was started with,
\* not the .env file, not the (existing) secret store
CredentialRemoved ==
  /\ ~Truthy(shell_env)
  /\ ~Truthy(dotenv_file)
  /\ secrets # NOFILE /\ ~Truthy(secrets)

\* C9, its second sentence: after any earlier submissions, a submission with
\* a non-blank text made when the credential has been removed from its
\* source is handled as missing-credential.
C9_RemovedCredentialIsMissing ==
  [][(Submit(user_text') /\ ~Blank(user_text') /\ CredentialRemoved')
       => (state' = "missing_credential")]_vars

\* C10: the expert_role passed to generate_response by the page is one of
\* the two radio options, so the system message of every conversation sent
\* is one of the two preset instructions, never the fallback; and no call
\* is made in a page run in which the form was not submitted.
C10_PageSendsOnlyPresetInstructions ==
  /\ role \in {DATA_SCIENTIST, PRODUCT_MANAGER}
  /\ (messages # <<>>) =>
       /\ messages[1].content \in {DataScientistInstruction, ProductManagerInstruction}
       /\ messages[1].content # FallbackInstruction
  /\ (~submitted) => (calls = 0 /\ messages = <<>> /\ state \in {"idle", "script_exception"})

C10_Witness ==
  /\ role = PRODUCT_MANAGER
  /\ messages # <<>>
  /\ messages[1].content = ProductManagerInstruction
  /\ state = "success"

\* C4: system_message_for is a total lookup with default: each preset
\* identifier gives its own instruction, every other identifier, the empty
\* string included, gives the fallback instruction, and no identifier makes
\* it fail.
C4_ResolverLookupWithDefault ==
  LET m == system_message_for(role)
  IN  /\ (role = DATA_SCIENTIST) => (m = DataScientistInstruction)
      /\ (role = PRODUCT_MANAGER) => (m = ProductManagerInstruction)
      /\ (role \notin {DATA_SCIENTIST, PRODUCT_MANAGER}) => (m = FallbackInstruction)
      /\ m # <<"KeyError">>
      /\ (messages # <<>>) => (messages[1].content = m)

C4_Witness ==
  /\ role = ""
  /\ messages # <<>>
  /\ messages[1].content = FallbackInstruction

\* C5: the conversation generate_response sends has exactly two messages:
\* first the system message holding the instruction resolved for the
\* role, then the user message holding the user text as entered, braces and
\* blanks included; and every call that reaches the model sends one.
C5_TwoMessagesUserTextVerbatim ==
  /\ (messages # <<>>) =>
       /\ Len(messages) = 2
       /\ messages[1] = [role |-> "system", content |-> system_message_for(role)]
       /\ messages[2] = [role |-> "user", content |-> user_text]
  /\ (state = "success" \/ e \in RemoteErrors) => (messages # <<>>)

C5_Witness ==
  /\ role = "unknown-role"
  /\ user_text = <<"{", "a", "}">>
  /\ state = "success"
  /\ messages = <<[role |-> "system", content |-> FallbackInstruction],
                  [role |-> "user", content |-> <<"{", "a", "}">>]>>

====
